---------------------------- MODULE Spec2Model ----------------------------
(***************************************************************************)
(* Water Blob Store backend (src/backend/server.js) over its PostgreSQL    *)
(* schema (src/unnamed/part_001) and the payment provider it calls.        *)
(*                                                                         *)
(* Every route handler is an async function: it runs to its next `await`   *)
(* in one step, and the handlers of other requests may run between two     *)
(* awaits.  Each action below is one such run-to-await segment; a database *)
(* statement takes effect atomically in the segment that awaits it.        *)
(***************************************************************************)
EXTENDS Integers, Sequences, FiniteSets, TLC

\* ------------------------------------------------------------------ bounds
MaxSessions == 1       \* checkout sessions at the provider
MaxWebhooks == 2       \* webhook requests in flight at a time
MaxCart == 2           \* lines of a cart
MaxQty == 2            \* largest quantity a cart line asks for
MaxAdminUpdates == 1   \* PUT /api/admin/products/:id requests
MaxCreates == 1        \* products added by POST /api/admin/products
MaxRaceSessions == 2   \* checkout sessions of the purchases that compete for stock
MaxCartQty == 8        \* units on one line of the storefront's cart

\* --------------------------------------------------------------- constants
\* A nullable value is NULL or Some(v); Val reads the value of a non-NULL one.
NULL == <<>>                   \* SQL NULL, JS null and undefined
Some(v) == <<v>>
Val(x) == x[1]
WebhookSecret == "whsec"       \* process.env.STRIPE_WEBHOOK_SECRET
Completed == "checkout.session.completed"
OtherType == "payment_intent.succeeded"

\* DECIMAL(10, 2): whole units and hundredths
Decimal(w, f) == [whole |-> w, frac |-> f]

\* session.amount_total / 100 stored in a DECIMAL(10, 2) column
Dollars(cents) == Decimal(cents \div 100, cents % 100)

\* Math.round(product.price * 100)
Cents(price) == price.whole * 100 + price.frac

\* the rows of INSERT INTO products ... of the schema, inventories scaled down;
\* the second product has unlimited stock (inventory NULL)
SampleProducts ==
    <<[price |-> Decimal(29, 99), inventory |-> Some(2), active |-> Some(TRUE)],
      [price |-> Decimal(49, 99), inventory |-> NULL, active |-> Some(TRUE)]>>

\* a product id that no row has
UnknownId == Len(SampleProducts) + 1

\* ------------------------------------------------------------------- JSON
\* JSON.stringify of one cart line, as the tokens of its text: the keys in the
\* order the storefront's cart gives them, a key without value left out
ItemTokens(item) ==
    IF item.price = NULL
    THEN <<"{", "productId", item.productId, "quantity", item.quantity, "}">>
    ELSE <<"{", "productId", item.productId, "price", Val(item.price),
           "quantity", item.quantity, "}">>

RECURSIVE ItemsTokens(_)
ItemsTokens(items) ==
    IF items = <<>> THEN <<>>
    ELSE ItemTokens(Head(items)) \o ItemsTokens(Tail(items))

\* JSON.stringify(items)
JSONstringify(items) == <<"[">> \o ItemsTokens(items) \o <<"]">>

RECURSIVE ParseItems(_)
ParseItems(toks) ==
    IF toks = <<>> THEN [ok |-> TRUE, value |-> <<>>]
    ELSE IF /\ Len(toks) >= 6
            /\ toks[1] = "{" /\ toks[2] = "productId"
            /\ toks[4] = "quantity" /\ toks[6] = "}"
         THEN LET rest == ParseItems(SubSeq(toks, 7, Len(toks)))
              IN  IF rest.ok
                  THEN [ok |-> TRUE,
                        value |-> <<[productId |-> toks[3], quantity |-> toks[5],
                                     price |-> NULL]>>
                                  \o rest.value]
                  ELSE rest
         ELSE IF /\ Len(toks) >= 8
                 /\ toks[1] = "{" /\ toks[2] = "productId"
                 /\ toks[4] = "price" /\ toks[6] = "quantity" /\ toks[8] = "}"
         THEN LET rest == ParseItems(SubSeq(toks, 9, Len(toks)))
              IN  IF rest.ok
                  THEN [ok |-> TRUE,
                        value |-> <<[productId |-> toks[3], quantity |-> toks[7],
                                     price |-> Some(toks[5])]>>
                                  \o rest.value]
                  ELSE rest
         ELSE [ok |-> FALSE, value |-> <<>>]

\* JSON.parse(text): a SyntaxError (ok = FALSE) for undefined or malformed text
JSONparse(text) ==
    IF text = NULL THEN [ok |-> FALSE, value |-> <<>>]
    ELSE IF Len(text) >= 2 /\ text[1] = "[" /\ text[Len(text)] = "]"
         THEN ParseItems(SubSeq(text, 2, Len(text) - 1))
         ELSE [ok |-> FALSE, value |-> <<>>]

\* JSON.stringify(session.shipping_details)
ShippingJSON(details) ==
    <<"{", "name", details.name, "country", details.country, "}">>

\* ------------------------------------------------------------------ inputs
ProductIds == 1..UnknownId

\* the price a cart line of the client claims for its product: none, or one cent
ClaimedPrices == {NULL, Some(Decimal(0, 1))}

\* a line of the storefront's cart: productId and quantity, and the price the
\* client holds for the product
CartLines == [productId : ProductIds, quantity : 1..MaxQty, price : ClaimedPrices]

\* req.body.items: the client sends its lines with their prices, or stripped
\* to productId and quantity
Carts ==
    UNION {[1..n -> {l \in CartLines : l.price = c}] :
              n \in 0..MaxCart, c \in ClaimedPrices}

\* req.body of POST /api/create-checkout-session: with a cart, or without items
CheckoutBodies == {[items |-> NULL]} \cup {[items |-> Some(c)] : c \in Carts}

Customers == {[email |-> "ann@example.com", name |-> Some("Ann")]}

\* PUT bodies of the admin update
AdminBodies ==
    [name : {Some("Water Blob")},
     price : {Decimal(5, 0)},
     inventory : {NULL, Some(0), Some(1)},
     active : {Some(TRUE), Some(FALSE)}]

\* PUT bodies that leave fields out: a field the body omits is undefined after
\* the destructuring and reaches the statement as a NULL parameter
PartialBodies ==
    [name : {Some("Water Blob"), NULL},
     price : {Decimal(5, 0), NULL},
     inventory : {NULL, Some(1)},
     active : {Some(TRUE), Some(FALSE), NULL}]

\* POST bodies of the admin create
CreateBodies == [price : {Decimal(5, 0)}, inventory : {NULL, Some(1)}]

\* the :sessionId of an order lookup: the provider's sessions and an id it
\* does not have
SessionIds == 1..(MaxSessions + 1)

\* LIMIT 100 of the admin order listing
ListLimit == 100

\* the events the provider can emit, and the signature header of a request
EventTypes == {Completed, OtherType}
Events == [type : EventTypes, sid : 1..MaxSessions]
Signatures == [key : {WebhookSecret, "forged"}, over : Events, fresh : BOOLEAN]
WebhookRequests ==
    [contentType : {"application/json", "text/plain"},
     payload : Events, sig : Signatures]

VARIABLES
    products,      \* table products: id -> row
    orders,        \* table orders: the rows, in insertion order
    sessions,      \* the provider's checkout sessions, id = position
    co,            \* the create-checkout-session request in flight, or its response
    wh,            \* webhook requests: slot -> handler state
    adminUpdates,  \* admin updates so far
    rd,            \* the GET request in flight, or its response
    ad,            \* the response to the last admin product request
    cart           \* the browser's localStorage item 'cart': its text, or NULL

vars == <<products, orders, sessions, co, wh, adminUpdates, rd, ad, cart>>

WhSlots == 1..MaxWebhooks

\* a response: its status, its Content-Type (json or text) and its body
NoResponse == [status |-> 0, type |-> "", body |-> NULL]

\* the locals of the checkout handler: items and lineItems live from the map to
\* the provider call; at is the position of the cart line whose callback threw
IdleCheckout ==
    [pc |-> "idle", items |-> <<>>, lineItems |-> <<>>, at |-> 0, res |-> NoResponse]

\* the locals of the webhook handler.  sigOk records whether the request carried
\* the provider's own fresh signature over its body, failed whether a storage
\* call of the processing rejected.
IdleWebhook ==
    [pc |-> "idle", sigOk |-> FALSE, type |-> "", sid |-> 0,
     items |-> <<>>, idx |-> 0, failed |-> FALSE, res |-> NoResponse]

\* the locals of a GET handler: its route and parameter; fault records that a
\* storage or provider call rejected for a fault
IdleRead ==
    [pc |-> "idle", route |-> "", arg |-> 0, fault |-> FALSE, res |-> NoResponse]

Init ==
    /\ products = SampleProducts
    /\ orders = <<>>
    /\ sessions = <<>>
    /\ co = IdleCheckout
    /\ wh = [w \in WhSlots |-> IdleWebhook]
    /\ adminUpdates = 0
    /\ rd = IdleRead
    /\ ad = NoResponse
    /\ cart = NULL

\* res.status(s).json(b) / res.json(b)
Respond(s, b) == [status |-> s, type |-> "json", body |-> b]

\* ------------------------------------------- POST /api/create-checkout-session
\* SELECT * FROM products WHERE id = ANY($1)
SelectProducts(ids) == {id \in DOMAIN products : id \in ids}

\* a stock check without the inventory !== null test: null < quantity compares
\* null as 0
LineItemNullAsZero(item, found) ==
    IF item.productId \notin found
    THEN [ok |-> FALSE, error |-> "Product not found"]
    ELSE LET product == products[item.productId]
             stock == IF product.inventory = NULL THEN 0 ELSE Val(product.inventory)
         IN  IF product.active # Some(TRUE)
             THEN [ok |-> FALSE, error |-> "Product is no longer available"]
             ELSE IF stock < item.quantity
             THEN [ok |-> FALSE, error |-> "Not enough in stock"]
             ELSE [ok |-> TRUE,
                   value |-> [unit_amount |-> Cents(product.price),
                              quantity |-> item.quantity]]

\* a callback that bills the price the cart line claims, when it claims one
LineItemClientPrice(item, found) ==
    IF item.productId \notin found
    THEN [ok |-> FALSE, error |-> "Product not found"]
    ELSE LET product == products[item.productId]
         IN  IF product.active # Some(TRUE)
             THEN [ok |-> FALSE, error |-> "Product is no longer available"]
             ELSE IF product.inventory # NULL /\ Val(product.inventory) < item.quantity
             THEN [ok |-> FALSE, error |-> "Not enough in stock"]
             ELSE [ok |-> TRUE,
                   value |-> [unit_amount |->
                                  IF item.price = NULL THEN Cents(product.price)
                                  ELSE Cents(Val(item.price)),
                              quantity |-> item.quantity]]

\* the callback of items.map: the line item of one cart line, or the Error thrown
LineItem(item, found) ==
    IF item.productId \notin found
    THEN [ok |-> FALSE, error |-> "Product not found"]
    ELSE LET product == products[item.productId]
         IN  IF product.active # Some(TRUE)
             THEN [ok |-> FALSE, error |-> "Product is no longer available"]
             ELSE IF product.inventory # NULL /\ Val(product.inventory) < item.quantity
             THEN [ok |-> FALSE, error |-> "Not enough in stock"]
             ELSE [ok |-> TRUE,
                   value |-> [unit_amount |-> Cents(product.price),
                              quantity |-> item.quantity]]

\* a map that leaves out the lines whose callback throws
RECURSIVE LineItemsSkipInvalid(_, _)
LineItemsSkipInvalid(items, found) ==
    IF items = <<>> THEN [ok |-> TRUE, value |-> <<>>]
    ELSE LET first == LineItem(Head(items), found)
             rest == LineItemsSkipInvalid(Tail(items), found)
         IN  IF ~first.ok THEN rest
             ELSE [ok |-> TRUE, value |-> <<first.value>> \o rest.value]

\* items.map(...): the line items, or the first Error a line throws and the
\* position of that line
RECURSIVE LineItems(_, _)
LineItems(items, found) ==
    IF items = <<>> THEN [ok |-> TRUE, value |-> <<>>]
    ELSE LET first == LineItem(Head(items), found)
         IN  IF ~first.ok THEN [ok |-> FALSE, error |-> first.error, at |-> 1]
             ELSE LET rest == LineItems(Tail(items), found)
                  IN  IF ~rest.ok THEN [rest EXCEPT !.at = @ + 1]
                      ELSE [ok |-> TRUE, value |-> <<first.value>> \o rest.value]

\* the catch of the route: res.status(500).json({ error: error.message })
CheckoutCatch(message) == Respond(500, [error |-> message])

\* return res.status(400).json({ error: 'No items in cart' })
CheckoutNoItems ==
    [IdleCheckout EXCEPT !.pc = "done",
         !.res = Respond(400, [error |-> "No items in cart"])]

\* the catalog query and the map of a cart: the handler at the await of the
\* provider call, or the answer of the catch
CheckoutBuild(items) ==
    LET found == SelectProducts({items[i].productId : i \in 1..Len(items)})
        built == LineItems(items, found)
    IN  IF built.ok
        THEN [IdleCheckout EXCEPT !.pc = "create", !.items = items,
                  !.lineItems = built.value]
        ELSE [IdleCheckout EXCEPT !.pc = "done", !.at = built.at,
                  !.res = CheckoutCatch(built.error)]

\* a handler without the items.length === 0 test
CheckoutValidateAnyLength(items) == CheckoutBuild(items)

\* the response to a request with the given cart, up to the provider call:
\* the empty-cart check, the catalog query and the map
CheckoutValidate(items) ==
    IF Len(items) = 0 THEN CheckoutNoItems ELSE CheckoutBuild(items)

\* the handler on a request body: !items, then as for the cart
CheckoutHandler(body) ==
    IF body.items = NULL THEN CheckoutNoItems ELSE CheckoutValidate(Val(body.items))

\* a request arrives and runs to the await of the provider call, or to its response
CheckoutPost(body) ==
    /\ co.pc \in {"idle", "done"}
    /\ co' = CheckoutHandler(body)
    /\ UNCHANGED <<products, orders, sessions, wh, adminUpdates, rd, ad, cart>>

\* the request that carries the cart items
CheckoutStart(items) == CheckoutPost([items |-> Some(items)])

\* the catalog query, issued for a cart that is not empty, rejects: the catch
\* answers
CheckoutQueryFails ==
    /\ co.pc \in {"idle", "done"}
    /\ co' = [IdleCheckout EXCEPT !.pc = "done",
                  !.res = CheckoutCatch("connection terminated")]
    /\ UNCHANGED <<products, orders, sessions, wh, adminUpdates, rd, ad, cart>>

RECURSIVE AmountTotal(_)
AmountTotal(lineItems) ==
    IF lineItems = <<>> THEN 0
    ELSE Head(lineItems).unit_amount * Head(lineItems).quantity
         + AmountTotal(Tail(lineItems))

\* the session the provider creates for stripe.checkout.sessions.create(params);
\* cart records the items the request carried
NewSession(lineItems, items) ==
    [id |-> Len(sessions) + 1,
     cart |-> items,
     amount_total |-> AmountTotal(lineItems),
     metadata |-> [items |-> JSONstringify(items)],
     payment_status |-> "unpaid",
     customer_details |-> NULL,
     shipping_details |-> NULL]

\* a checkout that takes the units of its first line out of the stock when the
\* session is created
CheckoutCreateSessionReserving ==
    /\ co.pc = "create"
    /\ LET session == NewSession(co.lineItems, co.items)
       IN  /\ sessions' = Append(sessions, session)
           /\ co' = [IdleCheckout EXCEPT !.pc = "done",
                         !.res = Respond(200, [sessionId |-> session.id])]
    /\ products' =
          [p \in DOMAIN products |->
              IF p = co.items[1].productId /\ products[p].inventory # NULL
              THEN [products[p] EXCEPT !.inventory = Some(Val(@) - co.items[1].quantity)]
              ELSE products[p]]
    /\ UNCHANGED <<orders, wh, adminUpdates, rd, ad, cart>>

\* await stripe.checkout.sessions.create(...) returns, res.json({sessionId, url})
CheckoutCreateSession ==
    /\ co.pc = "create"
    /\ LET session == NewSession(co.lineItems, co.items)
       IN  /\ sessions' = Append(sessions, session)
           /\ co' = [IdleCheckout EXCEPT !.pc = "done",
                         !.res = Respond(200, [sessionId |-> session.id])]
    /\ UNCHANGED <<products, orders, wh, adminUpdates, rd, ad, cart>>

\* the provider call rejects (network, provider outage): the catch answers
CheckoutCreateFails ==
    /\ co.pc = "create"
    /\ co' = [IdleCheckout EXCEPT !.pc = "done",
                  !.res = CheckoutCatch("An error occurred with our connection to Stripe")]
    /\ UNCHANGED <<products, orders, sessions, wh, adminUpdates, rd, ad, cart>>

\* ------------------------------------------------------------ the provider
\* the customer pays on the provider's hosted page
PaySession(s, customer) ==
    /\ s \in 1..Len(sessions)
    /\ sessions[s].payment_status = "unpaid"
    /\ sessions' = [sessions EXCEPT ![s] = [@ EXCEPT
            !.payment_status = "paid",
            !.customer_details = customer,
            !.shipping_details = [name |-> customer.name, country |-> "US"]]]
    /\ UNCHANGED <<products, orders, co, wh, adminUpdates, rd, ad, cart>>

\* a session made outside this server (dashboard, payment link): its metadata
\* has no items key
ForeignSession ==
    /\ sessions' = Append(sessions,
            [id |-> Len(sessions) + 1,
             cart |-> <<>>,
             amount_total |-> 500,
             metadata |-> [items |-> NULL],
             payment_status |-> "unpaid",
             customer_details |-> NULL,
             shipping_details |-> NULL])
    /\ UNCHANGED <<products, orders, co, wh, adminUpdates, rd, ad, cart>>

\* what the provider sends: the JSON text of an event it emitted, signed over
\* that text with the endpoint's secret; it emits checkout.session.completed only
\* for a paid session
Genuine(r) ==
    /\ r.contentType = "application/json"
    /\ r.payload.type = Completed => sessions[r.payload.sid].payment_status = "paid"
    /\ r.sig.key = WebhookSecret
    /\ r.sig.over = r.payload

\* the requests that can arrive: about a session the provider has, and with a
\* signature of the secret only when the provider made it
CanArrive(r) ==
    /\ r.payload.sid <= Len(sessions)
    /\ r.sig.key = WebhookSecret => Genuine(r)

\* ------------------------------------------------------- POST /api/webhook
\* the request as it comes off the socket: no parser has read its body
Incoming(r) ==
    [contentType |-> r.contentType, payload |-> r.payload, sig |-> r.sig,
     parsed |-> FALSE, body |-> [form |-> "empty", value |-> r.payload]]

\* a body parser for application/json: it reads the body of a request of that
\* type that no earlier parser has read, and otherwise passes the request on
BodyParser(req, form) ==
    IF ~req.parsed /\ req.contentType = "application/json"
    THEN [req EXCEPT !.parsed = TRUE, !.body = [form |-> form, value |-> req.payload]]
    ELSE req

\* app.use(express.json()): req.body becomes the parsed object
expressJson(req) == BodyParser(req, "object")

\* express.raw({ type: 'application/json' }): req.body becomes the raw Buffer
expressRaw(req) == BodyParser(req, "buffer")

\* constructEvent without the comparison of the signing key
constructEventAnyKey(body, sig, secret) ==
    IF /\ body.form = "buffer"
       /\ sig.over = body.value
       /\ sig.fresh
    THEN [ok |-> TRUE, event |-> body.value]
    ELSE [ok |-> FALSE, event |-> body.value]

\* stripe.webhooks.constructEvent(req.body, sig, secret): the event, or a throw
\* when the payload is not the signed text, the signature is not the secret's
\* over that text, or its timestamp is outside the tolerance
constructEvent(body, sig, secret) ==
    IF /\ body.form = "buffer"
       /\ sig.key = secret
       /\ sig.over = body.value
       /\ sig.fresh
    THEN [ok |-> TRUE, event |-> body.value]
    ELSE [ok |-> FALSE, event |-> body.value]

\* a handler that processes every event type
AnyEventType(event) == TRUE

\* event.type === 'checkout.session.completed'
IsCompleted(event) == event.type = Completed

\* res.json({ received: true })
WebhookAck == Respond(200, [received |-> TRUE])

\* a catch that answers with an error instead of falling through
WebhookCatchAnswers500(slot) ==
    [slot EXCEPT !.pc = "done", !.res = Respond(500, [error |-> "Webhook handler failed"])]

\* the catch around the order processing: console.error, and the handler goes on
\* to res.json({ received: true })
WebhookCatch(slot) == [slot EXCEPT !.pc = "done", !.res = WebhookAck]

\* the catch of the signature check: res.status(400).send(`Webhook Error: ...`)
WebhookReject == [status |-> 400, type |-> "text", body |-> "Webhook Error"]

\* the handler from its first line to its first await or to its response
WebhookHandler(req, genuine) ==
    LET verified == constructEvent(req.body, req.sig, WebhookSecret)
        event == verified.event
        taken == [IdleWebhook EXCEPT !.sigOk = genuine]
    IN  IF ~verified.ok
        THEN [taken EXCEPT !.pc = "done", !.res = WebhookReject]
        ELSE LET seen == [taken EXCEPT !.type = event.type, !.sid = event.sid]
             IN  IF ~IsCompleted(event)
                 THEN [seen EXCEPT !.pc = "done", !.res = WebhookAck]
                 ELSE LET parsed == JSONparse(sessions[event.sid].metadata.items)
                      IN  IF ~parsed.ok
                          THEN WebhookCatch(seen)
                          ELSE [seen EXCEPT !.pc = "insert", !.items = parsed.value]

\* the lowest slot that holds no request in flight
FreeSlot(w) ==
    /\ wh[w].pc \in {"idle", "done"}
    /\ \A v \in WhSlots : v < w => wh[v].pc \notin {"idle", "done"}

\* a request reaches the route: express.raw, then the handler
WebhookReceive(w, r) ==
    /\ FreeSlot(w)
    /\ CanArrive(r)
    /\ wh' = [wh EXCEPT ![w] =
                 WebhookHandler(expressRaw(Incoming(r)), Genuine(r) /\ r.sig.fresh)]
    /\ UNCHANGED <<products, orders, sessions, co, adminUpdates, rd, ad, cart>>

\* an order row whose amount is the total in cents, not divided by 100
OrderRowAmountInCents(session, items) ==
    [id |-> Len(orders) + 1,
     stripe_session_id |-> session.id,
     customer_email |-> session.customer_details.email,
     customer_name |-> session.customer_details.name,
     amount |-> Decimal(session.amount_total, 0),
     status |-> "paid",
     shipping_address |-> ShippingJSON(session.shipping_details),
     items |-> JSONstringify(items)]

\* the row of INSERT INTO orders ... RETURNING *; ids count the rows (the ids
\* that rejected inserts draw from the sequence are left out)
OrderRow(session, items) ==
    [id |-> Len(orders) + 1,
     stripe_session_id |-> session.id,
     customer_email |-> session.customer_details.email,
     customer_name |-> session.customer_details.name,
     amount |-> Dollars(session.amount_total),
     status |-> "paid",
     shipping_address |-> ShippingJSON(session.shipping_details),
     items |-> JSONstringify(items)]

\* an orders table without the unique constraint
NoUniqueConstraint(sessionId) == FALSE

\* stripe_session_id VARCHAR(255) UNIQUE NOT NULL
UniqueViolation(sessionId) ==
    \E i \in 1..Len(orders) : orders[i].stripe_session_id = sessionId

\* an INSERT ... ON CONFLICT DO NOTHING: a second row is not added, and the
\* handler goes on to the inventory loop
WebhookInsertIgnoringConflict(w) ==
    /\ wh[w].pc = "insert"
    /\ orders' = IF UniqueViolation(sessions[wh[w].sid].id) THEN orders
                 ELSE Append(orders, OrderRow(sessions[wh[w].sid], wh[w].items))
    /\ IF Len(wh[w].items) = 0
       THEN wh' = [wh EXCEPT ![w] = [@ EXCEPT !.pc = "done", !.res = WebhookAck]]
       ELSE wh' = [wh EXCEPT ![w] = [@ EXCEPT !.pc = "inventory", !.idx = 1]]
    /\ UNCHANGED <<products, sessions, co, adminUpdates, rd, ad, cart>>

\* await pool.query(INSERT INTO orders ...): the row is added, or the statement
\* rejects on the unique constraint and the catch ends the processing
WebhookInsert(w) ==
    /\ wh[w].pc = "insert"
    /\ IF UniqueViolation(sessions[wh[w].sid].id)
       THEN /\ orders' = orders
            /\ wh' = [wh EXCEPT ![w] = WebhookCatch(@)]
       ELSE /\ orders' = Append(orders, OrderRow(sessions[wh[w].sid], wh[w].items))
            /\ IF Len(wh[w].items) = 0
               THEN wh' = [wh EXCEPT ![w] = [@ EXCEPT !.pc = "done", !.res = WebhookAck]]
               ELSE wh' = [wh EXCEPT ![w] = [@ EXCEPT !.pc = "inventory", !.idx = 1]]
    /\ UNCHANGED <<products, sessions, co, adminUpdates, rd, ad, cart>>

\* the INSERT rejects for a storage fault: the catch ends the processing
WebhookInsertFails(w) ==
    /\ wh[w].pc = "insert"
    /\ wh' = [wh EXCEPT ![w] = WebhookCatch([@ EXCEPT !.failed = TRUE])]
    /\ UNCHANGED <<products, orders, sessions, co, adminUpdates, rd, ad, cart>>

\* the UPDATE without its id = $2 condition
UpdateInventoryAllRows(rows, quantity, id) ==
    [p \in DOMAIN rows |->
        IF rows[p].inventory # NULL
        THEN [rows[p] EXCEPT !.inventory = Some(Val(@) - quantity)]
        ELSE rows[p]]

\* an UPDATE that leaves a row alone whose inventory is below the quantity
UpdateInventoryIfEnough(rows, quantity, id) ==
    [p \in DOMAIN rows |->
        IF p = id /\ rows[p].inventory # NULL /\ Val(rows[p].inventory) >= quantity
        THEN [rows[p] EXCEPT !.inventory = Some(Val(@) - quantity)]
        ELSE rows[p]]

\* UPDATE products SET inventory = inventory - $1
\*   WHERE id = $2 AND inventory IS NOT NULL
UpdateInventory(rows, quantity, id) ==
    [p \in DOMAIN rows |->
        IF p = id /\ rows[p].inventory # NULL
        THEN [rows[p] EXCEPT !.inventory = Some(Val(@) - quantity)]
        ELSE rows[p]]

\* one turn of the for loop: await pool.query(UPDATE products ...); after the
\* last line, the log and res.json({ received: true })
WebhookUpdate(w) ==
    /\ wh[w].pc = "inventory"
    /\ LET item == wh[w].items[wh[w].idx]
       IN  products' = UpdateInventory(products, item.quantity, item.productId)
    /\ IF wh[w].idx = Len(wh[w].items)
       THEN wh' = [wh EXCEPT ![w] = [@ EXCEPT !.pc = "done", !.idx = @ + 1,
                        !.res = WebhookAck]]
       ELSE wh' = [wh EXCEPT ![w] = [@ EXCEPT !.idx = @ + 1]]
    /\ UNCHANGED <<orders, sessions, co, adminUpdates, rd, ad, cart>>

\* a failure of the loop that takes the order row back, as a transaction would
WebhookUpdateFailsRollsBack(w) ==
    /\ wh[w].pc = "inventory"
    /\ wh' = [wh EXCEPT ![w] = WebhookCatch([@ EXCEPT !.failed = TRUE])]
    /\ orders' = SelectSeq(orders,
                     LAMBDA o : o.stripe_session_id # sessions[wh[w].sid].id)
    /\ UNCHANGED <<products, sessions, co, adminUpdates, rd, ad, cart>>

\* the UPDATE rejects for a storage fault: the catch ends the loop
WebhookUpdateFails(w) ==
    /\ wh[w].pc = "inventory"
    /\ wh' = [wh EXCEPT ![w] = WebhookCatch([@ EXCEPT !.failed = TRUE])]
    /\ UNCHANGED <<products, orders, sessions, co, adminUpdates, rd, ad, cart>>

\* ------------------------------------------- PUT /api/admin/products/:id
\* a row of products as a query returns it
ProductRow(rows, p) ==
    [id |-> p, price |-> rows[p].price, inventory |-> rows[p].inventory,
     active |-> rows[p].active]

\* an update that carries the new price into the orders already stored
AdminUpdateRepricing(id, body) ==
    /\ adminUpdates < MaxAdminUpdates
    /\ adminUpdates' = adminUpdates + 1
    /\ products' = [p \in DOMAIN products |->
            IF p = id
            THEN [price |-> body.price, inventory |-> body.inventory,
                  active |-> body.active]
            ELSE products[p]]
    /\ orders' = [i \in 1..Len(orders) |-> [orders[i] EXCEPT !.amount = body.price]]
    /\ ad' = IF id \in DOMAIN products
             THEN Respond(200, [product |-> ProductRow(products', id)])
             ELSE Respond(404, [error |-> "Product not found"])
    /\ UNCHANGED <<sessions, co, wh, rd, cart>>

\* an UPDATE without its WHERE id = $7 condition
AdminUpdateEveryRow(id, body) ==
    /\ adminUpdates < MaxAdminUpdates
    /\ adminUpdates' = adminUpdates + 1
    /\ products' = [p \in DOMAIN products |->
            [price |-> body.price, inventory |-> body.inventory,
             active |-> body.active]]
    /\ ad' = IF id \in DOMAIN products
             THEN Respond(200, [product |-> ProductRow(products', id)])
             ELSE Respond(404, [error |-> "Product not found"])
    /\ UNCHANGED <<orders, sessions, co, wh, rd, cart>>

\* name VARCHAR(255) NOT NULL, price DECIMAL(10, 2) NOT NULL: a statement that
\* would write NULL into one of them is rejected
NotNullViolation(body) == body.name = NULL \/ body.price = NULL

\* an update that keeps the stored value of every field the body omits
AdminUpdateKeepingOmitted(id, body) ==
    /\ adminUpdates < MaxAdminUpdates
    /\ adminUpdates' = adminUpdates + 1
    /\ products' = [p \in DOMAIN products |->
            IF p = id
            THEN [price |-> IF body.price = NULL THEN products[p].price
                            ELSE body.price,
                  inventory |-> IF body.inventory = NULL THEN products[p].inventory
                                ELSE body.inventory,
                  active |-> IF body.active = NULL THEN products[p].active
                             ELSE body.active]
            ELSE products[p]]
    /\ ad' = IF id \in DOMAIN products
             THEN Respond(200, [product |-> ProductRow(products', id)])
             ELSE Respond(404, [error |-> "Product not found"])
    /\ UNCHANGED <<orders, sessions, co, wh, rd, cart>>

\* UPDATE products SET ... WHERE id = $7 RETURNING *: the row, or 404 when
\* no row has the id; when the row exists and the statement would write NULL
\* into a NOT NULL column, the query rejects and the catch answers
AdminUpdate(id, body) ==
    /\ adminUpdates < MaxAdminUpdates
    /\ adminUpdates' = adminUpdates + 1
    /\ IF id \in DOMAIN products /\ NotNullViolation(body)
       THEN /\ products' = products
            /\ ad' = Respond(500, [error |-> "Failed to update product"])
       ELSE /\ products' = [p \in DOMAIN products |->
                    IF p = id
                    THEN [price |-> body.price, inventory |-> body.inventory,
                          active |-> body.active]
                    ELSE products[p]]
            /\ ad' = IF id \in DOMAIN products
                     THEN Respond(200, [product |-> ProductRow(products', id)])
                     ELSE Respond(404, [error |-> "Product not found"])
    /\ UNCHANGED <<orders, sessions, co, wh, rd, cart>>

\* the storage call of an admin product request rejects: its catch answers
AdminUpdateFails ==
    /\ adminUpdates < MaxAdminUpdates
    /\ adminUpdates' = adminUpdates + 1
    /\ ad' = Respond(500, [error |-> "Failed to update product"])
    /\ UNCHANGED <<products, orders, sessions, co, wh, rd, cart>>

\* ---------------------------------------------- POST /api/admin/products
\* INSERT INTO products (...) VALUES ($1, ..., true) RETURNING *: the new row
\* takes the next id and is active
AdminCreate(body) ==
    /\ Len(products) < Len(SampleProducts) + MaxCreates
    /\ products' = Append(products,
            [price |-> body.price, inventory |-> body.inventory, active |-> Some(TRUE)])
    /\ ad' = Respond(200, [product |-> ProductRow(products', Len(products) + 1)])
    /\ UNCHANGED <<orders, sessions, co, wh, adminUpdates, rd, cart>>

\* the INSERT rejects: the catch answers
AdminCreateFails ==
    /\ Len(products) < Len(SampleProducts) + MaxCreates
    /\ ad' = Respond(500, [error |-> "Failed to create product"])
    /\ UNCHANGED <<products, orders, sessions, co, wh, adminUpdates, rd, cart>>

\* ------------------------------------------------------------ the GET routes
\* a GET handler takes a request when none is in flight
ReadFree == rd.pc \in {"idle", "done"}

\* the answer of a GET handler to the request of a route
ReadAnswer(route, arg, res) ==
    [IdleRead EXCEPT !.pc = "done", !.route = route, !.arg = arg, !.res = res]

\* the catch of a GET handler after a call rejected for a fault
ReadCatch(route, arg, message) ==
    [IdleRead EXCEPT !.pc = "done", !.route = route, !.arg = arg, !.fault = TRUE,
         !.res = Respond(500, [error |-> message])]

\* a listing that leaves out the active = true condition
AllProducts(rows) == {ProductRow(rows, p) : p \in DOMAIN rows}

\* SELECT * FROM products WHERE active = true (rows with equal created_at come
\* in no fixed order: the rows as a set)
ActiveProducts(rows) ==
    {ProductRow(rows, p) : p \in {q \in DOMAIN rows : rows[q].active = Some(TRUE)}}

\* GET /api/products
ListProducts ==
    /\ ReadFree
    /\ rd' = ReadAnswer("products", 0,
                  Respond(200, [products |-> ActiveProducts(products)]))
    /\ UNCHANGED <<products, orders, sessions, co, wh, adminUpdates, ad, cart>>

ListProductsFails ==
    /\ ReadFree
    /\ rd' = ReadCatch("products", 0, "Failed to fetch products")
    /\ UNCHANGED <<products, orders, sessions, co, wh, adminUpdates, ad, cart>>

\* a lookup by id alone
SelectProductAnyActivity(rows, id) == {p \in DOMAIN rows : p = id}

\* SELECT * FROM products WHERE id = $1 AND active = true
SelectProduct(rows, id) ==
    {p \in DOMAIN rows : p = id /\ rows[p].active = Some(TRUE)}

\* GET /api/products/:id
GetProduct(id) ==
    /\ ReadFree
    /\ rd' = ReadAnswer("product", id,
                  IF SelectProduct(products, id) = {}
                  THEN Respond(404, [error |-> "Product not found"])
                  ELSE Respond(200, [product |-> ProductRow(products, id)]))
    /\ UNCHANGED <<products, orders, sessions, co, wh, adminUpdates, ad, cart>>

GetProductFails(id) ==
    /\ ReadFree
    /\ rd' = ReadCatch("product", id, "Failed to fetch product")
    /\ UNCHANGED <<products, orders, sessions, co, wh, adminUpdates, ad, cart>>

\* SELECT * FROM orders WHERE stripe_session_id = $1
SelectOrders(sessionId) ==
    {i \in 1..Len(orders) : orders[i].stripe_session_id = sessionId}

\* a lookup that answers 404 when the order store has no row
GetOrderLookupOr404(rows, sessionId) ==
    IF rows = {}
    THEN ReadAnswer("order", sessionId, Respond(404, [error |-> "Order not found"]))
    ELSE ReadAnswer("order", sessionId,
             Respond(200, [order |-> orders[CHOOSE i \in rows : TRUE]]))

\* the order handler after its query: result.rows[0], or on to the provider
GetOrderLookup(rows, sessionId) ==
    IF rows = {}
    THEN [IdleRead EXCEPT !.pc = "retrieve", !.route = "order", !.arg = sessionId]
    ELSE ReadAnswer("order", sessionId,
             Respond(200, [order |-> orders[CHOOSE i \in rows : TRUE]]))

\* GET /api/order/:sessionId up to its answer or to the await of the provider
GetOrderQuery(sessionId) ==
    /\ ReadFree
    /\ rd' = GetOrderLookup(SelectOrders(sessionId), sessionId)
    /\ UNCHANGED <<products, orders, sessions, co, wh, adminUpdates, ad, cart>>

GetOrderQueryFails(sessionId) ==
    /\ ReadFree
    /\ rd' = ReadCatch("order", sessionId, "Failed to fetch order")
    /\ UNCHANGED <<products, orders, sessions, co, wh, adminUpdates, ad, cart>>

\* the order view made of the provider's session: no id, and the email only when
\* the session has customer details
Synthesized(session) ==
    [id |-> NULL,
     session_id |-> session.id,
     customer_email |-> IF session.customer_details = NULL THEN NULL
                        ELSE Some(session.customer_details.email),
     amount |-> Dollars(session.amount_total),
     status |-> session.payment_status]

\* a fallback that stores the view it made of the provider's session
GetOrderRetrievePersists ==
    /\ rd.pc = "retrieve"
    /\ rd.arg \in 1..Len(sessions)
    /\ rd' = ReadAnswer("order", rd.arg,
                  Respond(200, [order |-> Synthesized(sessions[rd.arg])]))
    /\ orders' = Append(orders,
            [id |-> Len(orders) + 1,
             stripe_session_id |-> sessions[rd.arg].id,
             customer_email |-> "",
             customer_name |-> NULL,
             amount |-> Dollars(sessions[rd.arg].amount_total),
             status |-> sessions[rd.arg].payment_status,
             shipping_address |-> <<>>,
             items |-> sessions[rd.arg].metadata.items])
    /\ UNCHANGED <<products, sessions, co, wh, adminUpdates, ad, cart>>

\* await stripe.checkout.sessions.retrieve(sessionId) returns the session, or
\* throws for an id the provider does not have
GetOrderRetrieve ==
    /\ rd.pc = "retrieve"
    /\ rd' = IF rd.arg \in 1..Len(sessions)
             THEN ReadAnswer("order", rd.arg,
                      Respond(200, [order |-> Synthesized(sessions[rd.arg])]))
             ELSE [ReadCatch("order", rd.arg, "Failed to fetch order")
                      EXCEPT !.fault = FALSE]
    /\ UNCHANGED <<products, orders, sessions, co, wh, adminUpdates, ad, cart>>

\* the provider call rejects for a fault (network, provider outage)
GetOrderRetrieveFails ==
    /\ rd.pc = "retrieve"
    /\ rd' = ReadCatch("order", rd.arg, "Failed to fetch order")
    /\ UNCHANGED <<products, orders, sessions, co, wh, adminUpdates, ad, cart>>

\* the first n rows of a listing
FirstRows(rows, n) == SubSeq(rows, 1, IF Len(rows) < n THEN Len(rows) ELSE n)

\* SELECT * FROM orders ORDER BY created_at DESC LIMIT 100
RecentOrders ==
    FirstRows([i \in 1..Len(orders) |-> orders[Len(orders) + 1 - i]], ListLimit)

\* GET /api/admin/orders
AdminOrders ==
    /\ ReadFree
    /\ rd' = ReadAnswer("adminOrders", 0, Respond(200, [orders |-> RecentOrders]))
    /\ UNCHANGED <<products, orders, sessions, co, wh, adminUpdates, ad, cart>>

AdminOrdersFails ==
    /\ ReadFree
    /\ rd' = ReadCatch("adminOrders", 0, "Failed to fetch orders")
    /\ UNCHANGED <<products, orders, sessions, co, wh, adminUpdates, ad, cart>>

\* ------------------------------------------------------------ specification
\* the provider holds fewer than n sessions: checkouts are followed while it does
HasRoom(n) == Len(sessions) < n

\* The routes as they are declared, each behind its own middleware: the webhook
\* route receives the body from express.raw.
Next ==
    \/ HasRoom(MaxSessions) /\ \E body \in CheckoutBodies : CheckoutPost(body)
    \/ HasRoom(MaxSessions) /\ CheckoutQueryFails
    \/ HasRoom(MaxSessions) /\ CheckoutCreateSession
    \/ CheckoutCreateFails
    \/ \E s \in 1..MaxSessions, c \in Customers : PaySession(s, c)
    \/ HasRoom(MaxSessions) /\ ForeignSession
    \/ \E w \in WhSlots, r \in WebhookRequests : WebhookReceive(w, r)
    \/ \E w \in WhSlots : WebhookInsert(w)
    \/ \E w \in WhSlots : WebhookInsertFails(w)
    \/ \E w \in WhSlots : WebhookUpdate(w)
    \/ \E w \in WhSlots : WebhookUpdateFails(w)
    \/ \E id \in ProductIds, body \in AdminBodies : AdminUpdate(id, body)

Spec == Init /\ [][Next]_vars

\* The application as it is assembled: app.use(express.json()) is mounted ahead
\* of every route, so a webhook request passes it before the route's express.raw.
AppWebhookReceive(w, r) ==
    /\ FreeSlot(w)
    /\ CanArrive(r)
    /\ wh' = [wh EXCEPT ![w] =
                 WebhookHandler(expressRaw(expressJson(Incoming(r))),
                                Genuine(r) /\ r.sig.fresh)]
    /\ UNCHANGED <<products, orders, sessions, co, adminUpdates, rd, ad, cart>>

\* No request gets past the signature check here (AppNeverProcesses), so the
\* steps after the check have no part in this next-state relation.
AppNext ==
    \/ HasRoom(MaxSessions) /\ \E body \in CheckoutBodies : CheckoutPost(body)
    \/ HasRoom(MaxSessions) /\ CheckoutQueryFails
    \/ HasRoom(MaxSessions) /\ CheckoutCreateSession
    \/ CheckoutCreateFails
    \/ \E s \in 1..MaxSessions, c \in Customers : PaySession(s, c)
    \/ HasRoom(MaxSessions) /\ ForeignSession
    \/ \E w \in WhSlots, r \in WebhookRequests : AppWebhookReceive(w, r)
    \/ \E id \in ProductIds, body \in AdminBodies : AdminUpdate(id, body)

AppSpec == Init /\ [][AppNext]_vars

AppNeverProcesses == \A w \in WhSlots : wh[w].pc \in {"idle", "done"}

\* Every route of the server, the purchases kept to one cart and to the
\* provider's own deliveries: a customer buys one unit of the first product
\* while the catalog and the orders are read and the catalog is administered.
RouteCarts == {<<[productId |-> 1, quantity |-> 1, price |-> NULL]>>}

RoutesNext ==
    \/ HasRoom(MaxSessions)
          /\ \E items \in RouteCarts : CheckoutPost([items |-> Some(items)])
    \/ HasRoom(MaxSessions) /\ CheckoutCreateSession
    \/ \E s \in 1..MaxSessions, c \in Customers : PaySession(s, c)
    \/ \E w \in WhSlots, r \in WebhookRequests :
          WebhookReceive(w, r) /\ Genuine(r) /\ r.sig.fresh
    \/ \E w \in WhSlots : WebhookInsert(w)
    \/ \E w \in WhSlots : WebhookUpdate(w)
    \/ \E id \in ProductIds, body \in AdminBodies : AdminUpdate(id, body)
    \/ AdminUpdateFails
    \/ \E body \in CreateBodies : AdminCreate(body)
    \/ AdminCreateFails
    \/ ListProducts
    \/ ListProductsFails
    \/ \E id \in ProductIds : GetProduct(id)
    \/ \E id \in ProductIds : GetProductFails(id)
    \/ \E sessionId \in SessionIds : GetOrderQuery(sessionId)
    \/ \E sessionId \in SessionIds : GetOrderQueryFails(sessionId)
    \/ GetOrderRetrieve
    \/ GetOrderRetrieveFails
    \/ AdminOrders
    \/ AdminOrdersFails

RoutesSpec == Init /\ [][RoutesNext]_vars

\* Purchases of the first product that compete for its stock: several
\* checkouts, each paid and each delivered by the provider.  The cart is one
\* line of any integer quantity a client can send.
RaceQuantities == {-1, 0} \cup 1..MaxQty

RaceCarts ==
    {<<[productId |-> 1, quantity |-> q, price |-> NULL]>> : q \in RaceQuantities}

\* the provider's deliveries of checkout.session.completed
RaceDeliveries ==
    {r \in [contentType : {"application/json"},
            payload : [type : {Completed}, sid : 1..MaxRaceSessions],
            sig : [key : {WebhookSecret},
                   over : [type : {Completed}, sid : 1..MaxRaceSessions],
                   fresh : {TRUE}]] :
        r.sig.over = r.payload}

RaceNext ==
    \/ HasRoom(MaxRaceSessions)
          /\ \E items \in RaceCarts : CheckoutPost([items |-> Some(items)])
    \/ HasRoom(MaxRaceSessions) /\ CheckoutCreateSession
    \/ CheckoutCreateFails
    \/ \E s \in 1..MaxRaceSessions, c \in Customers : PaySession(s, c)
    \/ \E w \in WhSlots, r \in RaceDeliveries : WebhookReceive(w, r)
    \/ \E w \in WhSlots : WebhookInsert(w)
    \/ \E w \in WhSlots : WebhookUpdate(w)

RaceSpec == Init /\ [][RaceNext]_vars

\* The admin update with bodies that leave fields out, and the routes that
\* read what it wrote: the listing, the lookup by id and the checkout.
AdminCarts ==
    {<<[productId |-> p, quantity |-> MaxQty, price |-> NULL]>> :
        p \in DOMAIN SampleProducts}

AdminNext ==
    \/ \E id \in ProductIds, body \in PartialBodies : AdminUpdate(id, body)
    \/ ListProducts
    \/ \E id \in ProductIds : GetProduct(id)
    \/ HasRoom(MaxSessions)
          /\ \E items \in AdminCarts : CheckoutPost([items |-> Some(items)])
    \/ HasRoom(MaxSessions) /\ CheckoutCreateSession

AdminSpec == Init /\ [][AdminNext]_vars

\* ------------------------------------------------- the storefront's cart
\* the products a page hands to addToCart: id and price of a catalog row
CartProducts ==
    {[id |-> p, price |-> SampleProducts[p].price] : p \in DOMAIN SampleProducts}

\* localStorage.getItem('cart'), and cart ? JSON.parse(cart) : []
getCart == IF cart = NULL THEN <<>> ELSE JSONparse(cart).value

\* localStorage.setItem('cart', JSON.stringify(cart)): the text stored
saveCart(lines) == JSONstringify(lines)

\* cart.find(item => item.productId === productId): the position of the first
\* such line, 0 for undefined
Find(lines, productId) ==
    IF \E i \in 1..Len(lines) : lines[i].productId = productId
    THEN CHOOSE i \in 1..Len(lines) :
            /\ lines[i].productId = productId
            /\ \A j \in 1..(i - 1) : lines[j].productId # productId
    ELSE 0

\* an addToCart that pushes a line whether or not the product has one
addToCartAlwaysPushes(product, quantity) ==
    /\ Len(getCart) < MaxCart
    /\ cart' = saveCart(Append(getCart,
                    [productId |-> product.id, price |-> Some(product.price),
                     quantity |-> quantity]))
    /\ UNCHANGED <<products, orders, sessions, co, wh, adminUpdates, rd, ad>>

\* addToCart(product, quantity = 1); name and image_url of the line are left out
addToCart(product, quantity) ==
    /\ LET lines == getCart
           existingItem == Find(lines, product.id)
       IN  IF existingItem # 0
           THEN /\ lines[existingItem].quantity + quantity <= MaxCartQty
                /\ cart' = saveCart([lines EXCEPT ![existingItem].quantity = @ + quantity])
           ELSE cart' = saveCart(Append(lines,
                            [productId |-> product.id, price |-> Some(product.price),
                             quantity |-> quantity]))
    /\ UNCHANGED <<products, orders, sessions, co, wh, adminUpdates, rd, ad>>

\* cart.filter(item => item.productId !== productId)
Filter(lines, productId) ==
    SelectSeq(lines, LAMBDA item : item.productId # productId)

\* removeFromCart(productId)
removeFromCart(productId) ==
    /\ cart' = saveCart(Filter(getCart, productId))
    /\ UNCHANGED <<products, orders, sessions, co, wh, adminUpdates, rd, ad>>

\* updateQuantity(productId, quantity): nothing happens when no line has the id
updateQuantity(productId, quantity) ==
    LET lines == getCart
        item == Find(lines, productId)
    IN  IF item # 0
        THEN IF quantity <= 0
             THEN removeFromCart(productId)
             ELSE /\ cart' = saveCart([lines EXCEPT ![item].quantity = quantity])
                  /\ UNCHANGED <<products, orders, sessions, co, wh, adminUpdates,
                                 rd, ad>>
        ELSE UNCHANGED vars

\* clearCart(): localStorage.removeItem('cart')
clearCart ==
    /\ cart' = NULL
    /\ UNCHANGED <<products, orders, sessions, co, wh, adminUpdates, rd, ad>>

CartNext ==
    \/ \E product \in CartProducts, quantity \in 1..MaxQty :
          addToCart(product, quantity)
    \/ \E productId \in ProductIds : removeFromCart(productId)
    \/ \E productId \in ProductIds, quantity \in -1..MaxQty :
          updateQuantity(productId, quantity)
    \/ clearCart

CartSpec == Init /\ [][CartNext]_vars

\* ------------------------------------------------------------------ claims
\* the handler got past the signature check: it has read the event
Verified(w) == wh[w].type # ""

\* the rows of the order store with a session id
RowsOf(sessionId) ==
    {i \in 1..Len(orders) : orders[i].stripe_session_id = sessionId}

C2_BadSignatureChangesNothing ==
    [][\A w \in WhSlots :
          (wh'[w] # wh[w] /\ ~wh'[w].sigOk)
          => /\ wh'[w].pc = "done"
             /\ wh'[w].res.status \in 400..499
             /\ orders' = orders
             /\ products' = products]_vars

\* a forged request was rejected while the store held an order
C2_Witness ==
    \E w \in WhSlots :
        /\ wh[w].pc = "done" /\ ~wh[w].sigOk
        /\ wh[w].res.status = 400
        /\ Len(orders) = 1

\* C3: a request the provider signed over its raw JSON body passes the signature
\* check (its answer is not the 400 of the check).
C3_SignedRawBodyIsVerified ==
    \A w \in WhSlots :
        (wh[w].pc # "idle" /\ wh[w].sigOk) => (Verified(w) /\ wh[w].res.status # 400)

\* C4: once the signature check has passed, the answer is {received: true},
\* whether the metadata parse, the order insert or an inventory update failed.
C4_AckAfterVerification ==
    \A w \in WhSlots :
        (wh[w].pc = "done" /\ Verified(w)) => wh[w].res = WebhookAck

\* an inventory update failed after the order row was committed, and the answer
\* is the acknowledgement
C4_Witness ==
    \E w \in WhSlots :
        /\ wh[w].pc = "done" /\ wh[w].failed /\ wh[w].idx >= 1
        /\ RowsOf(sessions[wh[w].sid].id) # {}
        /\ wh[w].res = WebhookAck

\* C5: a verified event of another type than checkout.session.completed is
\* acknowledged in the step that receives it and nothing else happens: no order
\* row, no product row changes, and the handler ends.
C5_OtherEventsNoEffect ==
    [][\A w \in WhSlots :
          (wh'[w] # wh[w] /\ wh[w].pc \in {"idle", "done"}
           /\ Verified(w)' /\ wh'[w].type # Completed)
          => /\ wh'[w].pc = "done"
             /\ wh'[w].res = WebhookAck
             /\ orders' = orders
             /\ products' = products]_vars

C5_Witness ==
    \E w \in WhSlots :
        /\ wh[w].pc = "done" /\ wh[w].type = OtherType
        /\ wh[w].res = WebhookAck

\* the cart lines a run of tokens spells: a line is six tokens, or eight when
\* it has a price
RECURSIVE CartOfTokens(_)
CartOfTokens(toks) ==
    IF Len(toks) < 6 THEN <<>>
    ELSE IF toks[4] = "price"
    THEN <<[productId |-> toks[3], quantity |-> toks[7], price |-> <<toks[5]>>]>>
         \o CartOfTokens(SubSeq(toks, 9, Len(toks)))
    ELSE <<[productId |-> toks[3], quantity |-> toks[5], price |-> <<>>]>>
         \o CartOfTokens(SubSeq(toks, 7, Len(toks)))

\* the cart a JSON text of the order row spells, read off its tokens
CartOfText(text) == CartOfTokens(SubSeq(text, 2, Len(text) - 1))

\* C6: every order row has status "paid" and carries its session's id, customer
\* email and name and shipping details, an amount of the session's total in
\* cents divided by 100, and as items the cart that createSession was given for
\* that session; and a delivery that got past the insert has left such a row.
C6_OrderRowMatchesSession ==
    /\ \A i \in 1..Len(orders) :
          LET o == orders[i]
              s == sessions[o.stripe_session_id]
          IN  /\ o.status = "paid"
              /\ o.stripe_session_id = s.id
              /\ o.customer_email = s.customer_details.email
              /\ o.customer_name = s.customer_details.name
              /\ o.shipping_address =
                    <<"{", "name", s.shipping_details.name,
                      "country", s.shipping_details.country, "}">>
              /\ o.amount.frac \in 0..99
              /\ o.amount.whole * 100 + o.amount.frac = s.amount_total
              /\ o.items[1] = "[" /\ o.items[Len(o.items)] = "]"
              /\ CartOfText(o.items) = s.cart
    /\ \A w \in WhSlots :
          wh[w].idx >= 1 => RowsOf(sessions[wh[w].sid].id) # {}

\* the order of a cart of two units of the first sample product: 2 x 29.99
C6_Witness ==
    /\ Len(orders) = 1
    /\ orders[1].amount = Decimal(59, 98)
    /\ sessions[orders[1].stripe_session_id].cart =
          <<[productId |-> 1, quantity |-> 2, price |-> NULL]>>

\* C7: each inventory update of a delivery lowers the inventory of the product
\* of its cart line by the line's quantity when that inventory is not NULL and
\* changes no other product row and no NULL inventory; the lines it walks are the
\* session's cart, and a delivery that ends without a fault has walked them all.
C7_InventoryDecrement ==
    [][\A w \in WhSlots :
          /\ wh[w].pc \in {"insert", "inventory"} => wh[w].items = sessions[wh[w].sid].cart
          /\ (wh[w].pc = "inventory" /\ wh'[w].idx = wh[w].idx + 1)
             => LET item == wh[w].items[wh[w].idx]
                IN  /\ DOMAIN products' = DOMAIN products
                    /\ \A p \in DOMAIN products :
                          products'[p] =
                            IF p = item.productId /\ products[p].inventory # NULL
                            THEN [products[p] EXCEPT
                                    !.inventory = Some(Val(products[p].inventory)
                                                       - item.quantity)]
                            ELSE products[p]
          /\ (wh[w].pc = "inventory" /\ wh'[w].pc = "done" /\ ~wh'[w].failed)
             => wh'[w].idx = Len(wh[w].items) + 1]_vars

\* a delivery for the cart (product 1, 2 units), (product 2, 1 unit) has ended:
\* product 1 went from 2 to 0 and product 2 is still unlimited
C7_Witness ==
    \E w \in WhSlots :
        /\ wh[w].pc = "done" /\ ~wh[w].failed
        /\ wh[w].items = <<[productId |-> 1, quantity |-> 2, price |-> NULL],
                           [productId |-> 2, quantity |-> 1, price |-> NULL]>>
        /\ wh[w].idx = 3
        /\ adminUpdates = 0
        /\ products[1].inventory = Some(0)
        /\ products[2].inventory = NULL

CheckoutStep == co' # co

\* a cart names a product id that has no row
HasUnknownProduct(items) ==
    \E i \in 1..Len(items) : items[i].productId \notin DOMAIN products

\* a cart line asks for more than its product's non-NULL inventory
ExceedsStock(items) ==
    \E i \in 1..Len(items) :
        /\ items[i].productId \in DOMAIN products
        /\ products[items[i].productId].inventory # NULL
        /\ Val(products[items[i].productId].inventory) < items[i].quantity

\* C9: a createSession request whose cart names an unknown product is answered
\* with status 400 and no session is created.
C9_UnknownProductIs400 ==
    [][CheckoutStep => \A items \in Carts :
          (CheckoutStart(items) /\ HasUnknownProduct(items))
          => /\ co'.pc = "done"
             /\ co'.res.status = 400
             /\ sessions' = sessions]_vars

\* C10: a createSession request with a line over its product's non-NULL
\* inventory is answered with status 400 and no session is created.
C10_OverStockIs400 ==
    [][CheckoutStep => \A items \in Carts :
          (CheckoutStart(items) /\ ExceedsStock(items))
          => /\ co'.pc = "done"
             /\ co'.res.status = 400
             /\ sessions' = sessions]_vars

\* a cart line that createSession refuses: its product has no row, is not
\* active, or has a non-NULL inventory below the quantity
InvalidLine(item) ==
    \/ item.productId \notin DOMAIN products
    \/ products[item.productId].active # <<TRUE>>
    \/ /\ products[item.productId].inventory # NULL
       /\ Val(products[item.productId].inventory) < item.quantity

\* C11: a createSession request whose cart has an invalid line at any position
\* fails in the step that validates it: an error status, no line items kept, no
\* session created and no store changed; and a handler that waits for the
\* provider holds one line item for every line of its cart.
C11_AllOrNothing ==
    [][/\ CheckoutStep => \A items \in Carts :
             (/\ CheckoutStart(items)
              /\ \E i \in 1..Len(items) : InvalidLine(items[i]))
             => /\ co'.pc = "done"
                /\ co'.res.status >= 400
                /\ co'.lineItems = <<>>
                /\ sessions' = sessions
                /\ products' = products
                /\ orders' = orders
       /\ co'.pc = "create" => Len(co'.lineItems) = Len(co'.items)]_vars

\* a cart whose first line was valid and whose second line was not has been
\* refused, and the provider has no session
C11_Witness ==
    /\ co.pc = "done" /\ co.at = 2
    /\ co.res.status >= 400
    /\ sessions = <<>>

\* C12: when createSession answers with the insufficient-stock error, the line
\* that raised it names a product whose inventory is not NULL; and for every
\* product with NULL inventory the callback of the map gives no such error for
\* any quantity, however large.
C12_NullInventoryNeverShort ==
    [][/\ CheckoutStep => \A items \in Carts :
             (/\ CheckoutStart(items)
              /\ co'.at > 0
              /\ co'.res.body.error = "Not enough in stock")
             => products[items[co'.at].productId].inventory # NULL
       /\ \A p \in DOMAIN products, q \in {1, MaxQty, 1000000} :
             products[p].inventory = NULL
             => LET built == LineItem([productId |-> p, quantity |-> q,
                                       price |-> NULL], DOMAIN products)
                IN  built.ok \/ built.error # "Not enough in stock"]_vars

\* a session was created for the largest quantity of the product whose
\* inventory is NULL
C12_Witness ==
    \E s \in 1..Len(sessions) :
        /\ Len(sessions[s].cart) = 1
        /\ sessions[s].cart[1].productId = 2
        /\ sessions[s].cart[1].quantity = MaxQty
        /\ products[2].inventory = NULL

\* C13: a createSession request without items or with an empty cart is answered
\* in the step that receives it with status 400 and the "No items in cart"
\* error; the handler ends there (it never waits for the provider) and no
\* session is created.
C13_EmptyCartIs400 ==
    [][CheckoutStep => \A body \in CheckoutBodies :
          (/\ CheckoutPost(body)
           /\ (body.items = NULL \/ Len(Val(body.items)) = 0))
          => /\ co'.pc = "done"
             /\ co'.res.status = 400
             /\ co'.res.body = [error |-> "No items in cart"]
             /\ co'.lineItems = <<>>
             /\ sessions' = sessions
             /\ products' = products
             /\ orders' = orders]_vars

C13_Witness ==
    /\ co.pc = "done"
    /\ co.res.status = 400
    /\ co.res.body = [error |-> "No items in cart"]
    /\ sessions = <<>>

\* a cart without what the client claims: productId and quantity only
Stripped(items) ==
    [i \in 1..Len(items) |-> [items[i] EXCEPT !.price = <<>>]]

\* C14: the line items a createSession request holds for the provider have, line
\* by line, the catalog price of the line's product in cents as unit_amount and
\* the line's quantity; and the handler does for a cart what it does for the
\* same cart without its claimed prices, so carts that differ only in what the
\* client claims give the same line items.
C14_LineItemsFromCatalog ==
    [][/\ CheckoutStep => \A items \in Carts :
             (CheckoutStart(items) /\ co'.pc = "create")
             => /\ Len(co'.lineItems) = Len(items)
                /\ \A i \in 1..Len(items) :
                      /\ co'.lineItems[i].unit_amount =
                            products[items[i].productId].price.whole * 100
                            + products[items[i].productId].price.frac
                      /\ co'.lineItems[i].quantity = items[i].quantity
       /\ CheckoutStep => \A items \in Carts :
             CheckoutStart(items)
             => LET plain == CheckoutValidate(Stripped(items))
                IN  /\ co'.pc = plain.pc
                    /\ co'.lineItems = plain.lineItems
                    /\ co'.res = plain.res]_vars

\* the cart of two units of the product priced 29.99, claimed at one cent by
\* the client, waits for the provider with the line item 2999 x 2
C14_Witness ==
    /\ co.pc = "create"
    /\ co.items = <<[productId |-> 1, quantity |-> 2, price |-> <<[whole |-> 0, frac |-> 1]>>]>>
    /\ products[1].price = [whole |-> 29, frac |-> 99]
    /\ co.lineItems = <<[unit_amount |-> 2999, quantity |-> 2]>>

\* a step of a GET handler
ReadStep == rd' # rd

\* the answer is the view of a provider session, not a stored row
IsSynthesized(res) ==
    /\ res.status = 200
    /\ "order" \in DOMAIN res.body
    /\ "session_id" \in DOMAIN res.body.order

\* C15: an order lookup that finds no row for its session id goes on to the
\* provider without answering; when the provider has the session and the call
\* does not fail for a fault, the answer is 200 with an order of id null whose
\* session id, email, amount and status are the session's at that moment,
\* whether or not a webhook has stored the row in between; and no step of the
\* lookup changes the order store.
C15_LookupFallsBackToProvider ==
    [][ReadStep =>
         /\ \A sessionId \in SessionIds :
               (GetOrderQuery(sessionId) /\ RowsOf(sessionId) = {})
               => (rd'.pc = "retrieve" /\ rd'.arg = sessionId /\ orders' = orders)
         /\ (rd.pc = "retrieve" /\ ~rd'.fault /\ rd.arg \in 1..Len(sessions))
            => LET session == sessions[rd.arg]
                   order == rd'.res.body.order
               IN  /\ rd'.pc = "done"
                   /\ rd'.res.status = 200
                   /\ rd'.res.type = "json"
                   /\ order.id = <<>>
                   /\ order.session_id = session.id
                   /\ order.customer_email =
                         IF session.customer_details = <<>> THEN <<>>
                         ELSE <<session.customer_details.email>>
                   /\ order.amount.frac \in 0..99
                   /\ order.amount.whole * 100 + order.amount.frac
                         = session.amount_total
                   /\ order.status = session.payment_status
                   /\ orders' = orders]_vars

\* a lookup found no row, the webhook stored the row while the lookup waited
\* for the provider, and the lookup answered with the session's view
C15_Witness ==
    /\ rd.pc = "done" /\ rd.route = "order"
    /\ IsSynthesized(rd.res)
    /\ rd.res.body.order.status = "paid"
    /\ RowsOf(rd.arg) # {}

\* C16: no step removes an order row or changes a field of one: every row of
\* the order store is, after the step, the row it was before.
C16_OrderRowsNeverChange ==
    [][/\ Len(orders') >= Len(orders)
       /\ \A i \in 1..Len(orders) : orders'[i] = orders[i]]_vars

\* an order of 29.99 stands while its product was repriced to 5.00 and the
\* order was looked up
C16_Witness ==
    /\ Len(orders) = 1
    /\ orders[1].amount = [whole |-> 29, frac |-> 99]
    /\ ad.status = 200 /\ products[1].price = [whole |-> 5, frac |-> 0]
    /\ rd.pc = "done" /\ rd.route = "order" /\ rd.res.status = 200
    /\ ~IsSynthesized(rd.res)

\* C17: a step that changes the order store is the insert of a webhook
\* delivery; it is no step of createSession, of a GET route (product listing,
\* product lookup, getOrder, admin order listing) or of the admin product
\* create and update.
C17_OnlyWebhookWritesOrders ==
    [][orders' # orders
       => /\ \E w \in WhSlots : wh[w].pc = "insert" /\ wh'[w] # wh[w]
          /\ co' = co
          /\ rd' = rd
          /\ ad' = ad
          /\ adminUpdates' = adminUpdates
          /\ products' = products]_vars

\* an order is stored, and createSession, a GET route, the admin create and the
\* admin update have all answered
C17_Witness ==
    /\ Len(orders) = 1
    /\ co.pc = "done" /\ co.res.status = 200
    /\ rd.pc = "done" /\ rd.res.status = 200
    /\ adminUpdates = 1
    /\ Len(products) = Len(SampleProducts) + 1

\* C18: an admin update keeps every product row and the order store; a product
\* listing has no row of a product whose active flag is false and has every
\* other row; an order lookup that finds a row answers with that row, and the
\* admin order listing holds every stored row (up to its limit of 100).
C18_DeactivationHidesProductOnly ==
    [][/\ adminUpdates' # adminUpdates
          => (DOMAIN products' = DOMAIN products /\ orders' = orders)
       /\ (ReadStep /\ rd'.route = "products" /\ ~rd'.fault)
          => /\ rd'.res.status = 200
             /\ \A p \in DOMAIN products :
                   (products[p].active # <<TRUE>>)
                   <=> (\A row \in rd'.res.body.products : row.id # p)
       /\ (ReadStep /\ rd'.route = "order" /\ rd.pc # "retrieve" /\ ~rd'.fault
            /\ RowsOf(rd'.arg) # {})
          => /\ rd'.res.status = 200
             /\ \E i \in RowsOf(rd'.arg) : rd'.res.body.order = orders[i]
       /\ (ReadStep /\ rd'.route = "adminOrders" /\ ~rd'.fault)
          => /\ rd'.res.status = 200
             /\ Len(orders) <= 100
                => \A i \in 1..Len(orders) :
                      \E j \in 1..Len(rd'.res.body.orders) :
                         rd'.res.body.orders[j] = orders[i]]_vars

\* the first product, which the stored order references, was deactivated; its
\* row exists and the admin order listing returns the order
C18_Witness ==
    /\ adminUpdates = 1
    /\ 1 \in DOMAIN products /\ products[1].active = <<FALSE>>
    /\ Len(orders) = 1
    /\ CartOfText(orders[1].items)[1].productId = 1
    /\ rd.pc = "done" /\ rd.route = "adminOrders"
    /\ rd.res.body.orders = <<orders[1]>>

\* C19 as stated: a product lookup answers with the product whenever a row has
\* the id, and with 404 only when no row has it.
C19_GetByIdFindsEveryRow ==
    [][ReadStep => \A id \in ProductIds :
          GetProduct(id)
          => IF id \in DOMAIN products
             THEN /\ rd'.res.status = 200
                  /\ rd'.res.body.product.id = id
             ELSE rd'.res.status = 404]_vars

\* C19 amended: a product lookup answers with the row of the id when that row
\* exists and is active, and with 404 when no row has the id or the row's
\* active flag is not true.
C19_GetByIdFindsActiveRow ==
    [][ReadStep => \A id \in ProductIds :
          GetProduct(id)
          => IF id \in DOMAIN products /\ products[id].active = <<TRUE>>
             THEN /\ rd'.res.status = 200
                  /\ rd'.res.body.product =
                        [id |-> id, price |-> products[id].price,
                         inventory |-> products[id].inventory, active |-> <<TRUE>>]
             ELSE /\ rd'.res.status = 404
                  /\ rd'.res.body = [error |-> "Product not found"]]_vars

\* the lookup of a deactivated product was answered 404
C19_Witness ==
    /\ rd.pc = "done" /\ rd.route = "product"
    /\ rd.arg \in DOMAIN products
    /\ products[rd.arg].active = <<FALSE>>
    /\ rd.res.status = 404

\* a failure response is JSON with an error field
IsJsonError(res) == res.type = "json" /\ "error" \in DOMAIN res.body

\* C20: every response with a failure status, of every route, the webhook's
\* signature failure included, is a JSON body with an error field.
C20_FailuresAreJsonErrors ==
    /\ co.res.status >= 400 => IsJsonError(co.res)
    /\ rd.res.status >= 400 => IsJsonError(rd.res)
    /\ ad.status >= 400 => IsJsonError(ad)
    /\ \A w \in WhSlots : wh[w].res.status >= 400 => IsJsonError(wh[w].res)

\* the messages of the faults of the storage and of the provider
FaultMessages ==
    {"connection terminated", "An error occurred with our connection to Stripe"}

\* C21: no 500 response of createSession, of a GET route or of an admin route
\* carries the message of the fault that caused it.
C21_FaultMessageStaysInside ==
    /\ co.res.status = 500 => co.res.body.error \notin FaultMessages
    /\ rd.res.status = 500 => rd.res.body.error \notin FaultMessages
    /\ ad.status = 500 => ad.body.error \notin FaultMessages

\* C22: an admin update that is not cut short by a storage fault answers 404
\* and leaves every product row as it was when no row has the id, and otherwise
\* answers 200 with the row of the id holding the body's values, every other
\* row as it was.
C22_AdminUpdateOneRowOr404 ==
    [][(adminUpdates' # adminUpdates /\ ad'.status # 500)
       => \A id \in ProductIds, body \in AdminBodies :
             AdminUpdate(id, body)
             => /\ DOMAIN products' = DOMAIN products
                /\ IF id \notin DOMAIN products
                   THEN /\ ad'.status = 404
                        /\ ad'.body = [error |-> "Product not found"]
                        /\ products' = products
                   ELSE /\ ad'.status = 200
                        /\ ad'.body.product =
                              [id |-> id, price |-> body.price,
                               inventory |-> body.inventory, active |-> body.active]
                        /\ products'[id] =
                              [price |-> body.price, inventory |-> body.inventory,
                               active |-> body.active]
                        /\ \A p \in DOMAIN products :
                              p # id => products'[p] = products[p]]_vars

\* an update for the id that no row has was answered 404 with the catalog as
\* the schema's sample rows
C22_Witness ==
    /\ adminUpdates = 1
    /\ ad.status = 404
    /\ products = SampleProducts

\* the units of a product on the lines of a cart
RECURSIVE UnitsOf(_, _)
UnitsOf(items, p) ==
    IF items = <<>> THEN 0
    ELSE (IF items[1].productId = p THEN items[1].quantity ELSE 0)
         + UnitsOf(SubSeq(items, 2, Len(items)), p)

\* the units of a product that the stored orders snapshot
RECURSIVE Sold(_, _)
Sold(rows, p) ==
    IF rows = <<>> THEN 0
    ELSE UnitsOf(CartOfText(rows[1].items), p) + Sold(SubSeq(rows, 2, Len(rows)), p)

\* no webhook delivery is in flight
Quiet == \A w \in WhSlots : wh[w].pc \in {"idle", "done"}

C24_ReplayDecrementsNothing ==
    [][/\ \A w \in WhSlots :
             (/\ wh[w].pc = "insert" /\ wh'[w] # wh[w]
              /\ RowsOf(sessions[wh[w].sid].id) # {})
             => /\ wh'[w].pc = "done" /\ wh'[w].idx = 0
                /\ wh'[w].res = WebhookAck
                /\ products' = products
                /\ orders' = orders
       /\ adminUpdates' = 0
          => /\ Cardinality(RowsOf(1)) <= 1
             /\ Val(products'[1].inventory)
                   >= Val(SampleProducts[1].inventory) - Sold(orders', 1)]_vars

\* the first delivery stored the order and lowered the first product's
\* inventory by the cart's units; the same event was then delivered again,
\* stopped at the insert, and the inventory is still lowered once
C24_Witness ==
    /\ wh[1].pc = "done" /\ wh[1].type = Completed /\ Verified(1)
    /\ ~wh[1].failed /\ wh[1].idx = 0 /\ wh[1].items # <<>>
    /\ wh[2].pc = "idle"
    /\ Len(orders) = 1 /\ adminUpdates = 0
    /\ UnitsOf(sessions[1].cart, 1) > 0
    /\ Val(products[1].inventory) = 2 - UnitsOf(sessions[1].cart, 1)

\* C25: when the inventory update of line k fails, the step changes no product
\* row and no order row: the order row of the session and the decrements of
\* lines 1..k-1 stay, the delivery ends at line k and is answered with the
\* acknowledgement.  Only a delivery whose insert added the row enters the
\* loop, and rows are never taken back, so no later delivery walks lines k..n.
C25_PartialProcessingStays ==
    [][/\ \A w \in WhSlots :
             /\ (wh[w].pc = "inventory" /\ wh'[w].pc = "done" /\ wh'[w].failed)
                => /\ products' = products
                   /\ orders' = orders
                   /\ RowsOf(sessions[wh[w].sid].id) # {}
                   /\ wh'[w].idx = wh[w].idx
                   /\ wh'[w].res = WebhookAck
             /\ (wh[w].pc = "insert" /\ wh'[w].pc = "inventory")
                => /\ RowsOf(sessions[wh[w].sid].id) = {}
                   /\ Len(orders') = Len(orders) + 1
       /\ Len(orders') >= Len(orders)
       /\ SubSeq(orders', 1, Len(orders)) = orders]_vars

\* a delivery for a cart of two lines of the first product failed at its second
\* line; a redelivery of the event stopped at the insert; the order row is
\* stored and the inventory is lowered by the first line only
C25_Witness ==
    /\ wh[1].pc = "done" /\ wh[1].failed /\ wh[1].idx = 2
    /\ Len(wh[1].items) = 2
    /\ wh[1].items[1].productId = 1 /\ wh[1].items[2].productId = 1
    /\ wh[1].res = WebhookAck
    /\ wh[2].pc = "done" /\ ~wh[2].failed /\ wh[2].idx = 0
    /\ wh[2].type = Completed /\ wh[2].sid = wh[1].sid
    /\ Len(orders) = 1 /\ adminUpdates = 0
    /\ Val(products[1].inventory) = 2 - wh[1].items[1].quantity

\* C26: a cart that createSession accepts asks, over all its lines together,
\* for no more units of a product than that product's non-NULL inventory.
C26_StockCheckCoversProduct ==
    [][CheckoutStep => \A items \in Carts :
          (CheckoutStart(items) /\ co'.pc = "create")
          => \A p \in DOMAIN products :
                products[p].inventory # NULL
                => UnitsOf(items, p) <= Val(products[p].inventory)]_vars

\* C27: every line of a cart that got a session has a quantity of at least 1,
\* so has every line of an order snapshot, and no step of the webhook handler
\* leaves a product's non-NULL inventory higher than it found it.
C27_QuantitiesArePositive ==
    [][/\ \A s \in 1..Len(sessions') : \A i \in 1..Len(sessions'[s].cart) :
             sessions'[s].cart[i].quantity >= 1
       /\ \A o \in 1..Len(orders') :
             \A i \in 1..Len(CartOfText(orders'[o].items)) :
                CartOfText(orders'[o].items)[i].quantity >= 1
       /\ wh' # wh
          => \A p \in DOMAIN products :
                products[p].inventory # NULL
                => Val(products'[p].inventory) <= Val(products[p].inventory)]_vars

\* C28: no step of createSession, whether it ends in a session or in an error,
\* changes a product row or the order store; and while no order is stored and
\* no admin update has run, the initial product rows are as they were, whatever
\* sessions exist.
C28_CheckoutWritesNothing ==
    [][/\ CheckoutStep => (products' = products /\ orders' = orders)
       /\ (orders' = <<>> /\ adminUpdates' = 0)
          => \A p \in DOMAIN SampleProducts : products'[p] = SampleProducts[p]]_vars

\* a session for the whole stock of the first product exists and is unpaid:
\* the inventory is still 2 and no order is stored
C28_Witness ==
    /\ Len(sessions) = 1 /\ sessions[1].payment_status = "unpaid"
    /\ sessions[1].cart = <<[productId |-> 1, quantity |-> 2, price |-> <<>>]>>
    /\ co.pc = "done" /\ co.res.status = 200
    /\ products[1].inventory = <<2>>
    /\ orders = <<>>

\* the row an update writes when every field of the body, omitted or not,
\* replaces the stored one
Written(body) ==
    [price |-> body.price, inventory |-> body.inventory, active |-> body.active]

\* C29 as stated: the update of an existing product writes every field of the
\* body over the stored one, a NULL for each field the body omits.
C29_OmittedFieldsBecomeNull ==
    [][adminUpdates' # adminUpdates
       => \A id \in DOMAIN products, body \in PartialBodies :
             AdminUpdate(id, body)
             => /\ ad'.status = 200
                /\ products'[id] = Written(body)]_vars

\* C29 amended: an update whose body carries name and price writes every
\* modelled field over the stored one, a NULL for an omitted inventory or
\* active; an update that omits name or price is answered with status 500 and
\* changes no row.  A product whose active is NULL is in no listing and a
\* checkout of it is refused with no session; a checkout of an active product
\* whose inventory is NULL passes the stock check whatever the quantity.
C29_OmittedNullableFieldsBecomeNull ==
    [][/\ adminUpdates' # adminUpdates
          => \A id \in DOMAIN products, body \in PartialBodies :
                AdminUpdate(id, body)
                => IF body.name = <<>> \/ body.price = <<>>
                   THEN /\ ad'.status = 500
                        /\ ad'.body = [error |-> "Failed to update product"]
                        /\ products' = products
                   ELSE /\ ad'.status = 200
                        /\ products'[id] = Written(body)
                        /\ \A p \in DOMAIN products : p # id => products'[p] = products[p]
       /\ (ReadStep /\ rd'.route = "products")
          => \A p \in DOMAIN products :
                products[p].active = <<>>
                => \A row \in rd'.res.body.products : row.id # p
       /\ CheckoutStep
          => \A items \in AdminCarts :
                CheckoutStart(items)
                => LET product == products[items[1].productId]
                   IN  /\ product.active = <<>>
                          => /\ co'.pc = "done"
                             /\ co'.res.body = [error |-> "Product is no longer available"]
                             /\ sessions' = sessions
                       /\ (product.active = <<TRUE>> /\ product.inventory = <<>>)
                          => co'.pc = "create"]_vars

\* an update of the first product carried name and price and left out
\* inventory and active: both are NULL in its row, the listing that followed
\* has no row of it and the checkout that followed was refused
C29_Witness ==
    /\ adminUpdates = 1 /\ ad.status = 200
    /\ products[1] = [price |-> Decimal(5, 0), inventory |-> <<>>, active |-> <<>>]
    /\ products[2] = SampleProducts[2]
    /\ rd.pc = "done" /\ rd.route = "products"
    /\ \A row \in rd.res.body.products : row.id = 2
    /\ co.pc = "done"
    /\ co.res.body = [error |-> "Product is no longer available"]
    /\ sessions = <<>>

\* the lines of the stored cart, read off the tokens of its text
StoredCart(text) == IF text = <<>> THEN <<>> ELSE CartOfText(text)

\* C30: the stored cart never has two lines with one productId; addToCart of a
\* product that has a line raises that line's quantity by the added amount and
\* leaves the number of lines and the other lines alone; updateQuantity with a
\* quantity of 0 or less for a product that has a line removes that line and
\* keeps the others in their order.
C30_OneLinePerProduct ==
    [][cart' # cart
       => LET old == StoredCart(cart)
              new == StoredCart(cart')
          IN  /\ \A i, j \in 1..Len(new) :
                     new[i].productId = new[j].productId => i = j
              /\ \A product \in CartProducts, quantity \in 1..MaxQty :
                     \A i \in 1..Len(old) :
                        (addToCart(product, quantity) /\ old[i].productId = product.id)
                        => /\ Len(new) = Len(old)
                           /\ new[i].quantity = old[i].quantity + quantity
                           /\ \A j \in 1..Len(old) : j # i => new[j] = old[j]
              /\ \A productId \in ProductIds, quantity \in -1..0 :
                     (/\ updateQuantity(productId, quantity)
                      /\ \E i \in 1..Len(old) : old[i].productId = productId)
                     => new = SelectSeq(old, LAMBDA item : item.productId # productId)]_vars

\* the first product was added, then the second, then the first again: the
\* cart has two lines and the first holds more units than one call adds
C30_Witness ==
    /\ Len(StoredCart(cart)) = 2
    /\ StoredCart(cart)[1].productId = 1 /\ StoredCart(cart)[1].quantity = 3
    /\ StoredCart(cart)[2].productId = 2
=============================================================================
